---- MODULE Spec2Model ----
(***************************************************************************)
(* A verification model of the two engines of the repository:             *)
(*   - map_model/src/pathfind.rs: Path, Pathfinder::pathfind, validate,    *)
(*     lanes_to_path, pick_turn, is_contraflow, leads_to_end_of_lane;      *)
(*   - convert_osm/src/transit.rs: glue_route, extract_route.              *)
(* Each engine has a specification of its own (SpecPath, SpecGlue,         *)
(* SpecExtract); the variables of the other engines stay idle in it.       *)
(***************************************************************************)
EXTENDS Integers, Sequences, FiniteSets, TLC

VARIABLES
  map,        \* the Map a search runs on: [lanes, turns]
  req,        \* the arguments of pathfind: [pf, start, start_dist, end, end_dist]
  queue,      \* pathfind's BinaryHeap, a set of <<priority, lane>>
  backrefs,   \* pathfind's HashMap<LaneID, LaneID>
  pc,         \* where the engine under check is: "call", "loop", "done", "shifted"
  result,     \* what pathfind returned, then the Path as it is consumed
  doc,        \* the OSM Document: [nodes, ways]
  all_ways,   \* glue_route's argument
  glued,      \* what glue_route returned
  rel,        \* the Relation given to extract_route: [tags, members]
  boundary,   \* the points the boundary polygon contains
  extracted,  \* what extract_route returned
  raw,        \* the RawMap given to snap_bus_stops: [intersections]
  pt_to_road, \* the lookup given to snap_bus_stops, a function from points to roads
  snapped     \* what snap_bus_stops returned

vars ==
  <<map, req, queue, backrefs, pc, result, doc, all_ways, glued, rel, boundary, extracted,
    raw, pt_to_road, snapped>>
pathVars == <<map, req, queue, backrefs, result>>
snapVars == <<raw, pt_to_road, snapped>>
osmVars == <<doc, all_ways, glued, rel, boundary, extracted, snapVars>>

(***************************************************************************)
(* Bounds of the model.                                                    *)
(***************************************************************************)
\* lanes of a map: LaneID 1..NumLanes
NumLanes == 4
\* bends of a lane, each making it longer than the line between its ends
MaxBend == 1

\* sidewalks of a walking map: LaneID 1..NumSidewalks
NumSidewalks == 3

\* intersections of a map
Intersections == {1, 2, 3, 4}
LaneIDs == 1..NumLanes
LaneTypes == {"Driving", "Biking", "Sidewalk"}

Abs(x) == IF x < 0 THEN -x ELSE x
Reverse(s) == [i \in 1..Len(s) |-> s[Len(s) + 1 - i]]
Last(s) == s[Len(s)]
WithoutLast(s) == SubSeq(s, 1, Len(s) - 1)

(***************************************************************************)
(* The map (Network Graph Accessor).  A lane is a record                   *)
(* [lane_type, length, src_i, dst_i]; a TurnID is [parent, src, dst].      *)
(* Points lie on one line, so a Pt2D is its coordinate and the length of   *)
(* Line::new(a, b) is |a - b|; every lane end is a point of its own.       *)
(***************************************************************************)
NoTurn == [parent |-> 0, src |-> 0, dst |-> 0]

\* neighbouring intersections are BlockLength apart; the end of lane l at
\* intersection i lies l past the intersection
BlockLength == NumLanes + 1
PtAt(l, i) == i * BlockLength + l

get_l(l) == map.lanes[l]
lane_first_pt(l) == PtAt(l, get_l(l).src_i)
lane_last_pt(l) == PtAt(l, get_l(l).dst_i)
\* a turn runs from its source lane's end at the parent intersection to its
\* destination lane's end at the parent intersection
turn_first_pt(t) == PtAt(t.src, t.parent)
turn_last_pt(t) == PtAt(t.dst, t.parent)
line_length(a, b) == Abs(a - b)

get_turns_from_lane(l) == {t \in map.turns : t.src = l}
get_next_turns_and_lanes(l) == {<<t, t.dst>> : t \in get_turns_from_lane(l)}

(***************************************************************************)
(* PathStep: Lane(id), ContraflowLane(id), Turn(id).                       *)
(***************************************************************************)
StepLane(l) == [kind |-> "Lane", lane |-> l, turn |-> NoTurn]
StepContraflowLane(l) == [kind |-> "ContraflowLane", lane |-> l, turn |-> NoTurn]
StepTurn(t) == [kind |-> "Turn", lane |-> 0, turn |-> t]

\* the point a step leaves from (validate's `from`)
step_exit_pt(s) ==
  CASE s.kind = "Lane" -> lane_last_pt(s.lane)
    [] s.kind = "ContraflowLane" -> lane_first_pt(s.lane)
    [] s.kind = "Turn" -> turn_last_pt(s.turn)

\* the point a step enters at (validate's `to`)
step_entry_pt(s) ==
  CASE s.kind = "Lane" -> lane_first_pt(s.lane)
    [] s.kind = "ContraflowLane" -> lane_last_pt(s.lane)
    [] s.kind = "Turn" -> turn_first_pt(s.turn)

\* sensitivity of C4: a validate that looks at the first window only
validate_first_window(steps) ==
  IF Len(steps) < 2 THEN TRUE
  ELSE line_length(step_exit_pt(steps[1]), step_entry_pt(steps[2])) = 0

\* validate: TRUE when no window of two steps warps (the code panics otherwise)
RECURSIVE validate(_)
validate(steps) ==
  IF Len(steps) < 2 THEN TRUE
  ELSE IF line_length(step_exit_pt(steps[1]), step_entry_pt(steps[2])) > 0 THEN FALSE
  ELSE validate(Tail(steps))

\* outcomes of a call: a value, or the panic that aborted it
ResNone == [kind |-> "None", steps |-> <<>>, msg |-> ""]
ResPending == [kind |-> "Pending", steps |-> <<>>, msg |-> ""]
ResPanic(m) == [kind |-> "Panic", steps |-> <<>>, msg |-> m]
ResSome(steps) == [kind |-> "Some", steps |-> steps, msg |-> ""]

\* Path::new
PathNew(steps) ==
  IF validate(steps) THEN ResSome(steps) ELSE ResPanic("warps")

is_contraflow(from, to) == get_l(from).dst_i # get_l(to).src_i
leads_to_end_of_lane(t) == is_contraflow(t.src, t.dst)

\* pick_turn: the set of turns the loop can return (at most one, a TurnID being
\* its (parent, src, dst)); empty when the code panics
pick_turn(from, to) ==
  LET endpoint == IF is_contraflow(from, to) THEN get_l(from).src_i ELSE get_l(from).dst_i
  IN {t \in get_turns_from_lane(from) : t.parent = endpoint /\ t.dst = to}

\* the loop of lanes_to_path and what follows it
RECURSIVE lanes_loop(_, _, _)
lanes_loop(steps, current_turn, lanes) ==
  IF lanes = <<>> THEN
    PathNew(Append(steps,
      IF leads_to_end_of_lane(current_turn) THEN StepContraflowLane(current_turn.dst)
      ELSE StepLane(current_turn.dst)))
  ELSE IF lanes[1] = current_turn.dst THEN ResPanic("assert lanes[0] != current_turn.dst")
  ELSE
    LET picked == pick_turn(current_turn.dst, lanes[1]) IN
    IF picked = {} THEN ResPanic("No turn")
    ELSE
      LET next_turn == CHOOSE t \in picked : TRUE
          lane_step ==
            IF current_turn.parent = next_turn.parent THEN <<>>
            ELSE IF leads_to_end_of_lane(current_turn)
              THEN <<StepContraflowLane(current_turn.dst)>>
            ELSE <<StepLane(current_turn.dst)>>
      IN lanes_loop(steps \o lane_step \o <<StepTurn(next_turn)>>, next_turn, Tail(lanes))

lanes_to_path(lanes) ==
  IF Len(lanes) <= 1 THEN ResPanic("assert lanes.len() > 1")
  ELSE
    LET first == IF is_contraflow(lanes[1], lanes[2]) THEN StepContraflowLane(lanes[1])
                 ELSE StepLane(lanes[1])
        picked == pick_turn(lanes[1], lanes[2])
    IN IF picked = {} THEN ResPanic("No turn")
       ELSE LET current_turn == CHOOSE t \in picked : TRUE
            IN lanes_loop(<<first, StepTurn(current_turn)>>, current_turn, Tail(Tail(lanes)))

(***************************************************************************)
(* Pathfinder: ShortestDistance { goal_pt, is_bike } or UsingTransit.      *)
(***************************************************************************)
ShortestDistance(goal_pt, is_bike) ==
  [kind |-> "ShortestDistance", goal_pt |-> goal_pt, is_bike |-> is_bike]
UsingTransit == [kind |-> "UsingTransit", goal_pt |-> 0, is_bike |-> FALSE]

\* sensitivity of C15: an expand that keeps bike trips, not the others, out of
\* bike lanes
expand_filter_inverted(pf, current) ==
  LET current_length == get_l(current).length IN
  IF pf.kind = "ShortestDistance" THEN
    {<<tl[2], current_length + line_length(lane_first_pt(tl[2]), pf.goal_pt)>> :
       tl \in {x \in get_next_turns_and_lanes(current) :
                 ~(pf.is_bike /\ get_l(x[2]).lane_type = "Biking")}}
  ELSE
    {<<tl[2], current_length>> : tl \in get_next_turns_and_lanes(current)}

\* sensitivity of C2: an expand that lets every search enter bike lanes
expand_into_bike_lanes(pf, current) ==
  LET current_length == get_l(current).length IN
  IF pf.kind = "ShortestDistance" THEN
    {<<tl[2], current_length + line_length(lane_first_pt(tl[2]), pf.goal_pt)>> :
       tl \in get_next_turns_and_lanes(current)}
  ELSE
    {<<tl[2], current_length>> : tl \in get_next_turns_and_lanes(current)}

\* Pathfinder::expand: the (next lane, cost) pairs of the returned Vec.  Two
\* turns into the same lane give the same pair twice; the caller skips the
\* second one, so the Vec is kept as a set.
expand(pf, current) ==
  LET current_length == get_l(current).length IN
  IF pf.kind = "ShortestDistance" THEN
    {<<tl[2], current_length + line_length(lane_first_pt(tl[2]), pf.goal_pt)>> :
       tl \in {x \in get_next_turns_and_lanes(current) :
                 ~(~pf.is_bike /\ get_l(x[2]).lane_type = "Biking")}}
  ELSE
    {<<tl[2], current_length>> : tl \in get_next_turns_and_lanes(current)}

\* BinaryHeap<(NotNaN<f64>, LaneID)>::pop: the greatest (priority, lane) pair
heap_max(q) ==
  CHOOSE e \in q : \A o \in q : o[1] < e[1] \/ (o[1] = e[1] /\ o[2] <= e[2])

EmptyBackrefs == [l \in {} |-> 0]

\* sensitivity of C22: a walk that stops at the root of the back-references,
\* the lane that has none, instead of stopping at start
RECURSIVE walk_backrefs_to_root(_, _, _, _)
walk_backrefs_to_root(refs, lookup, reversed_lanes, fuel) ==
  LET pushed == Append(reversed_lanes, lookup)
      lanes == Reverse(pushed)
  IN IF lookup \notin DOMAIN refs THEN
       IF lanes[1] # req.start \/ lanes[Len(lanes)] # req.end
       THEN ResPanic("assert reversed_lanes")
       ELSE lanes_to_path(lanes)
     ELSE IF fuel = 0 THEN [kind |-> "Diverge", steps |-> <<>>, msg |-> ""]
     ELSE walk_backrefs_to_root(refs, refs[lookup], pushed, fuel - 1)

\* the walk along the back-references once the end lane is popped; fuel
\* bounds the walk so that a walk that never reaches start is an outcome
RECURSIVE walk_backrefs(_, _, _, _)
walk_backrefs(refs, lookup, reversed_lanes, fuel) ==
  LET pushed == Append(reversed_lanes, lookup)
      lanes == Reverse(pushed)
  IN IF lookup = req.start THEN
       IF lanes[1] # req.start \/ lanes[Len(lanes)] # req.end
       THEN ResPanic("assert reversed_lanes")
       ELSE lanes_to_path(lanes)
     ELSE IF lookup \notin DOMAIN refs THEN ResPanic("no backref")
     ELSE IF fuel = 0 THEN [kind |-> "Diverge", steps |-> <<>>, msg |-> ""]
     ELSE walk_backrefs(refs, refs[lookup], pushed, fuel - 1)

(***************************************************************************)
(* Pathfinder::pathfind, one action per stage: the checks and the          *)
(* start == end case, one iteration of the while loop, the exit of the     *)
(* loop.  Path::shift consumes the returned path.                          *)
(***************************************************************************)
\* sensitivity of C3: a start == end case that always walks forwards
same_lane_path_forwards(start, start_dist, end_dist) == PathNew(<<StepLane(start)>>)

\* the start == end case of pathfind
same_lane_path(start, start_dist, end_dist) ==
  IF start_dist > end_dist THEN
    IF get_l(start).lane_type # "Sidewalk"
    THEN ResPanic("assert Sidewalk")
    ELSE PathNew(<<StepContraflowLane(start)>>)
  ELSE PathNew(<<StepLane(start)>>)

PathfindEnter ==
  /\ pc = "call"
  /\ IF get_l(req.start).lane_type # get_l(req.end).lane_type THEN
       /\ result' = ResPanic("assert lane_type")
       /\ pc' = "done"
       /\ UNCHANGED <<queue, backrefs>>
     ELSE IF req.start = req.end THEN
       /\ result' = same_lane_path(req.start, req.start_dist, req.end_dist)
       /\ pc' = "done"
       /\ UNCHANGED <<queue, backrefs>>
     ELSE
       /\ queue' = {<<0, req.start>>}
       /\ backrefs' = EmptyBackrefs
       /\ pc' = "loop"
       /\ UNCHANGED result
  /\ UNCHANGED <<map, req, osmVars>>

PathfindIterate ==
  /\ pc = "loop"
  /\ queue # {}
  /\ LET top == heap_max(queue)
         cost_sofar == top[1]
         current == top[2]
         popped == queue \ {top}
     IN IF current = req.end THEN
          /\ result' = walk_backrefs(backrefs, current, <<>>, NumLanes)
          /\ pc' = "done"
          /\ queue' = popped
          /\ UNCHANGED backrefs
        ELSE
          LET fresh == {p \in expand(req.pf, current) : p[1] \notin DOMAIN backrefs} IN
          /\ backrefs' = [l \in DOMAIN backrefs \cup {p[1] : p \in fresh} |->
                            IF l \in DOMAIN backrefs THEN backrefs[l] ELSE current]
          /\ queue' = popped \cup {<<(-1) * (p[2] + cost_sofar), p[1]>> : p \in fresh}
          /\ UNCHANGED <<pc, result>>
  /\ UNCHANGED <<map, req, osmVars>>

PathfindNoPath ==
  /\ pc = "loop"
  /\ queue = {}
  /\ result' = ResNone
  /\ pc' = "done"
  /\ UNCHANGED <<map, req, queue, backrefs, osmVars>>

\* sensitivity of C5: a shift that takes the last step, not the first
ShiftFromBack ==
  /\ pc \in {"done", "shifted"}
  /\ result.kind = "Some"
  /\ result.steps # <<>>
  /\ result' = [result EXCEPT !.steps = WithoutLast(result.steps)]
  /\ pc' = "shifted"
  /\ UNCHANGED <<map, req, queue, backrefs, osmVars>>

\* Path::shift, called by the agent while steps remain
Shift ==
  /\ pc \in {"done", "shifted"}
  /\ result.kind = "Some"
  /\ result.steps # <<>>
  /\ result' = [result EXCEPT !.steps = Tail(result.steps)]
  /\ pc' = "shifted"
  /\ UNCHANGED <<map, req, queue, backrefs, osmVars>>

(***************************************************************************)
(* The search once more, with the order in which the map enumerates the    *)
(* turns of a lane made explicit: expand returns a Vec in that order, the  *)
(* for loop pushes in that order, and the queue keeps its entries in the   *)
(* order they were pushed.  A TurnID being its (parent, src, dst), the     *)
(* turn pick_turn returns does not depend on the order.                    *)
(***************************************************************************)
\* the orders a map may enumerate turns in: by parent then destination, or by
\* destination then parent, upwards or downwards
TurnOrders == {"parent up", "parent down", "lane up", "lane down"}
turn_rank(t, o) ==
  CASE o = "parent up" -> t.parent * BlockLength + t.dst
    [] o = "parent down" -> -(t.parent * BlockLength + t.dst)
    [] o = "lane up" -> t.dst * BlockLength + t.parent
    [] o = "lane down" -> -(t.dst * BlockLength + t.parent)

RECURSIVE in_order(_, _)
in_order(turns, o) ==
  IF turns = {} THEN <<>>
  ELSE LET t == CHOOSE x \in turns : \A y \in turns : turn_rank(x, o) <= turn_rank(y, o)
       IN <<t>> \o in_order(turns \ {t}, o)

\* Pathfinder::expand, as the Vec it returns
expand_in_order(pf, current, o) ==
  LET current_length == get_l(current).length
      turns == in_order(get_turns_from_lane(current), o)
  IN IF pf.kind = "ShortestDistance" THEN
       LET kept == SelectSeq(turns, LAMBDA t :
                     ~(~pf.is_bike /\ get_l(t.dst).lane_type = "Biking"))
       IN [i \in 1..Len(kept) |->
             <<kept[i].dst,
               current_length + line_length(lane_first_pt(kept[i].dst), pf.goal_pt)>>]
     ELSE [i \in 1..Len(turns) |-> <<turns[i].dst, current_length>>]

\* sensitivity of C16: a queue ordered by priority alone, the entry pushed
\* first winning a tie
pop_first_of_greatest(q) ==
  CHOOSE i \in 1..Len(q) :
    /\ \A j \in 1..Len(q) : q[j][1] <= q[i][1]
    /\ \A j \in 1..(i - 1) : q[j][1] < q[i][1]

\* BinaryHeap<(NotNaN<f64>, LaneID)>::pop: the place of the greatest
\* (priority, lane) pair among the entries pushed
pop_greatest(q) ==
  CHOOSE i \in 1..Len(q) :
    \A j \in 1..Len(q) : q[j][1] < q[i][1] \/ (q[j][1] = q[i][1] /\ q[j][2] <= q[i][2])

\* for (next, cost) in self.expand(map, current), from element i on
RECURSIVE push_in_order(_, _, _, _, _, _)
push_in_order(vec, i, current, cost_sofar, q, refs) ==
  IF i > Len(vec) THEN [queue |-> q, backrefs |-> refs]
  ELSE IF vec[i][1] \in DOMAIN refs THEN push_in_order(vec, i + 1, current, cost_sofar, q, refs)
  ELSE push_in_order(vec, i + 1, current, cost_sofar,
                     Append(q, <<(-1) * (vec[i][2] + cost_sofar), vec[i][1]>>),
                     [l \in DOMAIN refs \cup {vec[i][1]} |->
                        IF l \in DOMAIN refs THEN refs[l] ELSE current])

\* the while loop of pathfind
RECURSIVE search_in_order(_, _, _, _)
search_in_order(o, q, refs, fuel) ==
  IF q = <<>> THEN ResNone
  ELSE IF fuel = 0 THEN [kind |-> "Diverge", steps |-> <<>>, msg |-> ""]
  ELSE
    LET i == pop_greatest(q)
        cost_sofar == q[i][1]
        current == q[i][2]
        popped == SubSeq(q, 1, i - 1) \o SubSeq(q, i + 1, Len(q))
    IN IF current = req.end THEN walk_backrefs(refs, current, <<>>, NumLanes)
       ELSE LET pushed == push_in_order(expand_in_order(req.pf, current, o), 1, current,
                                        cost_sofar, popped, refs)
            IN search_in_order(o, pushed.queue, pushed.backrefs, fuel - 1)

\* pathfind with start # end on a map that enumerates turns in order o
pathfind_in_order(o) ==
  search_in_order(o, <<<<0, req.start>>>>, EmptyBackrefs, 2 * NumLanes + 2)

(***************************************************************************)
(* The maps and searches of SpecPath.                                      *)
(***************************************************************************)
\* the intersections lie along one street, 1 - 2 - 3 - 4; a sidewalk joins two
\* neighbouring ones, in either direction
Ends == {e \in Intersections \X Intersections : Abs(e[1] - e[2]) = 1}

\* a turn joins two sidewalks at an intersection both touch, at either end of
\* each; it joins two vehicle lanes where the first ends and the second starts
valid_turn(lanes, t) ==
  LET s == lanes[t.src]
      d == lanes[t.dst]
  IN /\ t.src # t.dst
     /\ IF s.lane_type = "Sidewalk" /\ d.lane_type = "Sidewalk" THEN
          t.parent \in {s.src_i, s.dst_i} \cap {d.src_i, d.dst_i}
        ELSE IF s.lane_type # "Sidewalk" /\ d.lane_type # "Sidewalk" THEN
          t.parent = s.dst_i /\ t.parent = d.src_i
        ELSE FALSE

all_turns(lanes) ==
  {t \in [parent : Intersections, src : DOMAIN lanes, dst : DOMAIN lanes] :
     valid_turn(lanes, t)}

\* a lane is as long as the line between its ends, plus its bends; every lane
\* is straight but at most one, which has up to MaxBend bends.  A bend adds
\* BendUnit, more than the width of all the intersections a route can cross.
BendUnit == NumLanes * NumLanes
BendProfiles ==
  {[l \in LaneIDs |-> 0]}
    \cup {[l \in LaneIDs |-> IF l = bent THEN n ELSE 0] : bent \in LaneIDs, n \in 1..MaxBend}

\* walking maps: NumSidewalks sidewalks between neighbouring intersections,
\* each straight
SidewalkLanes ==
  {[l \in 1..NumSidewalks |-> [lane_type |-> "Sidewalk", length |-> BlockLength,
                               src_i |-> e[l][1], dst_i |-> e[l][2]]] :
     e \in [1..NumSidewalks -> Ends]}

\* driving maps: the NumLanes lanes of a two-way road between intersections 1
\* and 2, at most one of them a bike lane, or lanes 1 and 2 both
VehicleLanes ==
  {[l \in LaneIDs |-> [lane_type |-> IF l \in bikes THEN "Biking" ELSE "Driving",
                       length |-> BlockLength + bend[l] * BendUnit,
                       src_i |-> IF l \in fwd THEN 1 ELSE 2,
                       dst_i |-> IF l \in fwd THEN 2 ELSE 1]] :
     fwd \in SUBSET LaneIDs, bikes \in {b \in SUBSET LaneIDs : Cardinality(b) <= 1} \cup {{1, 2}},
     bend \in BendProfiles}

\* every turn the lanes allow exists
Maps == {[lanes |-> ls, turns |-> all_turns(ls)] : ls \in SidewalkLanes \cup VehicleLanes}

Dists == {0, 1}

\* snap_bus_stops is not running
SnapIdle ==
  /\ raw = <<>>
  /\ pt_to_road = <<>>
  /\ snapped = <<>>

\* the OSM engines are not running
OsmIdle ==
  /\ SnapIdle
  /\ doc = <<>>
  /\ all_ways = <<>>
  /\ glued = <<>>
  /\ rel = <<>>
  /\ boundary = {}
  /\ extracted = <<>>

InitPath ==
  /\ map \in Maps
  /\ \E s \in DOMAIN map.lanes, e \in DOMAIN map.lanes, sd \in Dists, ed \in Dists :
     \E pf \in {ShortestDistance(PtAt(e, map.lanes[e].src_i), b) : b \in BOOLEAN}
                 \cup {UsingTransit} :
       /\ (s # e => sd = 0 /\ ed = 0)
       /\ req = [pf |-> pf, start |-> s, start_dist |-> sd, end |-> e, end_dist |-> ed]
  /\ queue = {}
  /\ backrefs = EmptyBackrefs
  /\ pc = "call"
  /\ result = ResPending
  /\ OsmIdle

NextPath == PathfindEnter \/ PathfindIterate \/ PathfindNoPath \/ Shift

SpecPath == InitPath /\ [][NextPath]_vars

\* The search alone, from the call to the return.  pathfind is sequential
\* code: once called it runs on until it returns, so the stage it has reached
\* is taken.  The iteration that pops the end lane is the one that returns;
\* it is named by what it does to pc.
PopsEnd == pc = "loop" /\ queue # {} /\ heap_max(queue)[2] = req.end
PathfindRuns == PathfindEnter \/ PathfindIterate \/ PathfindNoPath
SpecPathFair ==
  /\ InitPath /\ [][PathfindRuns]_vars
  /\ WF_vars(~PopsEnd /\ PathfindRuns)
  /\ WF_pc(PopsEnd /\ pc' = "done")

(***************************************************************************)
(* convert_osm/src/transit.rs: glue_route.  A way of the document is       *)
(* [nodes, name, center]; a result is Ok(nodes) or Err(reason), the        *)
(* reason kept as its kind and the identifiers the message names.          *)
(***************************************************************************)
GlueOk(nodes) == [kind |-> "Ok", nodes |-> nodes, err |-> "", a |-> 0, b |-> 0, n |-> 0]
GlueErr(e, a, b, n) == [kind |-> "Err", nodes |-> <<>>, err |-> e, a |-> a, b |-> b, n |-> n]
GluePanic(m) == [kind |-> "Panic", nodes |-> <<>>, err |-> m, a |-> 0, b |-> 0, n |-> 0]

\* sensitivity of C8: an orientation that takes two ways sharing no end as stored
orient_pair_bridging(way1, way2) ==
  IF way1[1] = way2[1] THEN <<Reverse(way1), way2>>
  ELSE IF way1[1] = way2[Len(way2)] THEN <<Reverse(way1), Reverse(way2)>>
  ELSE IF way1[Len(way1)] = way2[Len(way2)] THEN <<way1, Reverse(way2)>>
  ELSE <<way1, way2>>

\* the orientation of one window of two ways: <<nodes1, nodes2>>, or <<>> for a gap
orient_pair(way1, way2) ==
  IF way1[1] = way2[1] THEN <<Reverse(way1), way2>>
  ELSE IF way1[1] = Last(way2) THEN <<Reverse(way1), Reverse(way2)>>
  ELSE IF Last(way1) = way2[1] THEN <<way1, way2>>
  ELSE IF Last(way1) = Last(way2) THEN <<way1, Reverse(way2)>>
  ELSE <<>>

\* sensitivity of C6: a stitch that keeps the junction node
stitch_keeping_junction(nodes, nodes1) == nodes \o nodes1

\* nodes.pop() of the junction node, then nodes.extend(nodes1)
stitch(nodes, nodes1) == (IF nodes = <<>> THEN <<>> ELSE WithoutLast(nodes)) \o nodes1

\* sensitivity of C24: a loop that stitches every window without comparing
\* the popped junction node with the first node of the next piece
RECURSIVE glue_loop_unchecked_piece(_, _, _, _, _)
glue_loop_unchecked_piece(ways, d, i, nodes, extra) ==
  IF i >= Len(ways) THEN
    IF nodes = <<>> THEN GlueErr("empty", 0, 0, 0)
    ELSE IF Last(nodes) # extra[1] THEN GluePanic("assert_eq")
    ELSE GlueOk(WithoutLast(nodes) \o extra)
  ELSE IF ways[i] \notin DOMAIN d.ways \/ ways[i + 1] \notin DOMAIN d.ways
    THEN GluePanic("no such way")
  ELSE
    LET way1 == d.ways[ways[i]].nodes
        way2 == d.ways[ways[i + 1]].nodes
    IN IF way1 = <<>> \/ way2 = <<>> THEN GluePanic("index out of bounds")
       ELSE
         LET o == orient_pair(way1, way2) IN
         IF o = <<>> THEN GlueErr("gap", ways[i], ways[i + 1], 0)
         ELSE glue_loop_unchecked_piece(ways, d, i + 1, stitch(nodes, o[1]), o[2])

\* the windows(2) loop from window i on, then "the last lil bit"
RECURSIVE glue_loop(_, _, _, _, _)
glue_loop(ways, d, i, nodes, extra) ==
  IF i >= Len(ways) THEN
    IF nodes = <<>> THEN GlueErr("empty", 0, 0, 0)
    ELSE IF Last(nodes) # extra[1] THEN GluePanic("assert_eq")
    ELSE GlueOk(WithoutLast(nodes) \o extra)
  ELSE IF ways[i] \notin DOMAIN d.ways \/ ways[i + 1] \notin DOMAIN d.ways
    THEN GluePanic("no such way")
  ELSE
    LET way1 == d.ways[ways[i]].nodes
        way2 == d.ways[ways[i + 1]].nodes
    IN IF way1 = <<>> \/ way2 = <<>> THEN GluePanic("index out of bounds")
       ELSE
         LET o == orient_pair(way1, way2) IN
         IF o = <<>> THEN GlueErr("gap", ways[i], ways[i + 1], 0)
         ELSE IF nodes # <<>> /\ Last(nodes) # o[1][1]
           THEN GlueErr("last piece", ways[i], ways[i + 1], Last(nodes))
         ELSE glue_loop(ways, d, i + 1, stitch(nodes, o[1]), o[2])

\* sensitivity of C7: a glue_route without the check for a single way
glue_route_unchecked(ways, d) == glue_loop(ways, d, 1, <<>>, <<>>)

glue_route(ways, d) ==
  IF Len(ways) = 1 THEN GlueErr("one way", ways[1], 0, 0)
  ELSE glue_loop(ways, d, 1, <<>>, <<>>)

\* the call under check
GlueRoute ==
  /\ pc = "call"
  /\ glued' = glue_route(all_ways, doc)
  /\ pc' = "done"
  /\ UNCHANGED <<pathVars, doc, all_ways, rel, boundary, extracted, snapVars>>

(***************************************************************************)
(* The documents and way lists of SpecGlue.                                *)
(***************************************************************************)
\* ways of a route
MaxWays == 4

OsmNodes == {1, 2, 3}
NoTag == "(none)"

\* the node lists of ways: one or two nodes, a way with a node between its
\* ends, stored in either order, and a closed way, which ends where it starts
\* and reads differently when reversed
WayShapes ==
  {<<a>> : a \in OsmNodes} \cup {<<a, b>> : a \in OsmNodes, b \in OsmNodes}
    \cup {<<1, 2, 3>>, <<3, 2, 1>>, <<1, 2, 3, 1>>}

Way(nodes, w) == [nodes |-> nodes, name |-> NoTag, center |-> 100 + w]

PathIdle ==
  /\ map = <<>>
  /\ req = <<>>
  /\ queue = {}
  /\ backrefs = <<>>
  /\ result = <<>>

\* the route's ways are the document's ways 1..k, in member order
InitGlue ==
  /\ \E k \in 0..MaxWays :
       /\ all_ways = [i \in 1..k |-> i]
       /\ \E shapes \in [1..k -> WayShapes] :
            doc = [nodes |-> <<>>, ways |-> [w \in 1..k |-> Way(shapes[w], w)]]
  /\ glued = <<>>
  /\ rel = <<>>
  /\ boundary = {}
  /\ extracted = <<>>
  /\ pc = "call"
  /\ SnapIdle
  /\ PathIdle

NextGlue == GlueRoute

SpecGlue == InitGlue /\ [][NextGlue]_vars

(***************************************************************************)
(* convert_osm/src/transit.rs: extract_route.  A relation is               *)
(* [tags, members], tags [name, ref, route] with NoTag for a missing tag,  *)
(* a member [role, kind, id] with kind "Node", "Way" or "Relation".  A     *)
(* node of the document is [name, pt].  A RawBusStop is                    *)
(* [name, node, pt, ped_pos, matched_road].                                *)
(***************************************************************************)
NoPt == 0
NoRoad == [i1 |-> 0, i2 |-> 0, fwds |-> FALSE]

\* format!("stop #{}", n)
StopNumName(n) ==
  <<"stop #1", "stop #2", "stop #3", "stop #4", "stop #5", "stop #6", "stop #7",
    "stop #8", "stop #9">>[n]

TagOr(tag, fallback) == IF tag = NoTag THEN fallback ELSE tag

RawBusStop(name, n, pt) ==
  [name |-> name, node |-> n, pt |-> pt, ped_pos |-> NoPt, matched_road |-> NoRoad]

NoRoute ==
  [full_name |-> "", short_name |-> "", is_bus |-> FALSE, stops |-> <<>>, all_pts |-> <<>>]
ExtractNone(why) == [kind |-> "None", route |-> NoRoute, why |-> why]
ExtractPanic(m) == [kind |-> "Panic", route |-> NoRoute, why |-> m]
ExtractSome(r) == [kind |-> "Some", route |-> r, why |-> ""]

\* HashMap::insert on the platforms, a function from names to points
MapInsert(m, k, v) == [x \in DOMAIN m \cup {k} |-> IF x = k THEN v ELSE m[x]]
MapRemove(m, k) == [x \in DOMAIN m \ {k} |-> m[x]]
EmptyPlatforms == [x \in {} |-> NoPt]

\* the loop over rel.members from member i on: [stops, platforms, all_ways, panic]
RECURSIVE gather_members(_, _, _, _, _, _)
gather_members(members, d, i, stops, platforms, ways) ==
  IF i > Len(members) THEN
    [stops |-> stops, platforms |-> platforms, all_ways |-> ways, panic |-> FALSE]
  ELSE
    LET m == members[i] IN
    IF m.role = "stop" THEN
      IF m.kind = "Node" THEN
        IF m.id \notin DOMAIN d.nodes THEN
          [stops |-> stops, platforms |-> platforms, all_ways |-> ways, panic |-> TRUE]
        ELSE
          LET node == d.nodes[m.id] IN
          gather_members(members, d, i + 1,
            Append(stops, RawBusStop(TagOr(node.name, StopNumName(Len(stops) + 1)),
                                     m.id, node.pt)),
            platforms, ways)
      ELSE gather_members(members, d, i + 1, stops, platforms, ways)
    ELSE IF m.role = "platform" THEN
      IF m.kind = "Node" THEN
        IF m.id \notin DOMAIN d.nodes THEN
          [stops |-> stops, platforms |-> platforms, all_ways |-> ways, panic |-> TRUE]
        ELSE
          LET node == d.nodes[m.id] IN
          gather_members(members, d, i + 1, stops,
            MapInsert(platforms,
                      TagOr(node.name, StopNumName(Cardinality(DOMAIN platforms) + 1)),
                      node.pt),
            ways)
      ELSE IF m.kind = "Way" THEN
        IF m.id \notin DOMAIN d.ways THEN
          [stops |-> stops, platforms |-> platforms, all_ways |-> ways, panic |-> TRUE]
        ELSE
          LET way == d.ways[m.id] IN
          gather_members(members, d, i + 1, stops,
            MapInsert(platforms,
                      TagOr(way.name, StopNumName(Cardinality(DOMAIN platforms) + 1)),
                      way.center),
            ways)
      ELSE gather_members(members, d, i + 1, stops, platforms, ways)
    ELSE IF m.kind = "Way" THEN
      gather_members(members, d, i + 1, stops, platforms, Append(ways, m.id))
    ELSE gather_members(members, d, i + 1, stops, platforms, ways)

\* sensitivity of C25: a merge that leaves the platform in the lookup, for
\* the next stop of the same name to take it too
RECURSIVE match_platforms_keeping(_, _, _)
match_platforms_keeping(stops, i, platforms) ==
  IF i > Len(stops) THEN stops
  ELSE IF stops[i].name \in DOMAIN platforms THEN
    match_platforms_keeping([stops EXCEPT ![i].ped_pos = platforms[stops[i].name]], i + 1,
                            platforms)
  ELSE match_platforms_keeping(stops, i + 1, platforms)

\* for stop in &mut stops: take the platform of the stop's name, if one is left
RECURSIVE match_platforms(_, _, _)
match_platforms(stops, i, platforms) ==
  IF i > Len(stops) THEN stops
  ELSE IF stops[i].name \in DOMAIN platforms THEN
    match_platforms([stops EXCEPT ![i].ped_pos = platforms[stops[i].name]], i + 1,
                    MapRemove(platforms, stops[i].name))
  ELSE match_platforms(stops, i + 1, platforms)

\* sensitivity of C9: a trimming loop that goes on after leaving the boundary
RECURSIVE trim_stops_no_break(_, _, _, _)
trim_stops_no_break(stops, bnd, i, keep_stops) ==
  IF i > Len(stops) THEN keep_stops
  ELSE IF stops[i].pt \in bnd
    THEN trim_stops_no_break(stops, bnd, i + 1, Append(keep_stops, stops[i]))
  ELSE trim_stops_no_break(stops, bnd, i + 1, keep_stops)

\* the boundary trimming loop from stop i on
RECURSIVE trim_stops(_, _, _, _)
trim_stops(stops, bnd, i, keep_stops) ==
  IF i > Len(stops) THEN keep_stops
  ELSE IF stops[i].pt \in bnd THEN trim_stops(stops, bnd, i + 1, Append(keep_stops, stops[i]))
  ELSE IF keep_stops # <<>> THEN keep_stops
  ELSE trim_stops(stops, bnd, i + 1, keep_stops)

\* sensitivity of C10: only a route without stops is too short
no_stops(keep_stops) == Len(keep_stops) < 1

\* "Routes with only 1 stop are pretty much useless"
too_few_stops(keep_stops) == Len(keep_stops) < 2

extract_route(r, d, bnd) ==
  IF r.tags.name = NoTag THEN ExtractNone("no name")
  ELSE
    LET full_name == r.tags.name
        short_name == TagOr(r.tags.ref, full_name)
    IN
    IF r.tags.route = NoTag THEN ExtractNone("no route tag")
    ELSE IF r.tags.route \notin {"bus", "light_rail"} THEN ExtractNone("route type")
    ELSE
      LET is_bus == (r.tags.route = "bus")
          g == gather_members(r.members, d, 1, <<>>, EmptyPlatforms, <<>>)
      IN
      IF g.panic THEN ExtractPanic("no such node or way")
      ELSE
        LET stops == match_platforms(g.stops, 1, g.platforms)
            glue == glue_route(g.all_ways, d)
        IN
        IF glue.kind = "Panic" THEN ExtractPanic(glue.err)
        ELSE IF glue.kind = "Err" THEN ExtractNone(glue.err)
        ELSE
          LET keep_stops == trim_stops(stops, bnd, 1, <<>>) IN
          IF too_few_stops(keep_stops) THEN ExtractNone("too few stops")
          ELSE ExtractSome([full_name |-> full_name, short_name |-> short_name,
                            is_bus |-> is_bus, stops |-> keep_stops,
                            all_pts |-> glue.nodes])

\* the call under check
ExtractRoute ==
  /\ pc = "call"
  /\ extracted' = extract_route(rel, doc, boundary)
  /\ pc' = "done"
  /\ UNCHANGED <<pathVars, doc, all_ways, glued, rel, boundary, snapVars>>

(***************************************************************************)
(* The relations and documents of SpecExtract: the stop members first      *)
(* (nodes 1..s), then the platform members (a node, then a way), then the  *)
(* route's ways.                                                           *)
(***************************************************************************)
\* stop members of a relation
MaxStops == 5

StopNames == {NoTag, "A"}
PlatformTagNames == {NoTag, "A", "B"}

\* the ways of the relation: three that join, the middle one stored
\* backwards; two with a gap; none; one
RouteWaysJoined == <<<<1, 2>>, <<3, 2>>, <<3, 1>>>>
RouteWaysGap == <<<<1, 2>>, <<3, 3>>>>
RouteWayLists == {RouteWaysJoined, RouteWaysGap, <<>>, <<<<1, 2>>>>}

\* the platform node follows the stop nodes, the platform way the route's ways
PlatformNode == MaxStops + 1
PlatformWay == Len(RouteWaysJoined) + 1

DefaultTags == [name |-> "Route 7", ref |-> NoTag, route |-> "bus"]
AllTags ==
  [name : {NoTag, "", "Route 7"}, ref : {NoTag, "7"},
   route : {NoTag, "bus", "light_rail", "road", "tram"}]

Member(role, kind, id) == [role |-> role, kind |-> kind, id |-> id]

\* the relation and the document of s stops named names, the platform node
\* named pn and the platform way named pw ("-": no such member), the ways wl
Relation(tags, s, pn, pw, wl) ==
  [tags |-> tags,
   members |->
     [i \in 1..s |-> Member("stop", "Node", i)]
     \o (IF pn = "-" THEN <<>> ELSE <<Member("platform", "Node", PlatformNode)>>)
     \o (IF pw = "-" THEN <<>> ELSE <<Member("platform", "Way", PlatformWay)>>)
     \o [i \in 1..Len(wl) |-> Member("", "Way", i)]]

Document(s, names, pn, pw, wl) ==
  [nodes |-> [n \in (1..s) \cup {PlatformNode} |->
                IF n = PlatformNode THEN [name |-> pn, pt |-> 50 + n]
                ELSE [name |-> names[n], pt |-> n]],
   ways |-> [w \in (1..Len(wl)) \cup {PlatformWay} |->
                IF w = PlatformWay
                THEN [nodes |-> <<PlatformNode>>, name |-> pw, center |-> 100 + w]
                ELSE Way(wl[w], w)]]

PlatformNames ==
  {<<"-", "-">>} \cup {<<n, "-">> : n \in PlatformTagNames}
    \cup (PlatformTagNames \X PlatformTagNames)

\* the members vary freely under the tags of a bus route whose ways join or
\* have a gap; the tags and the ways vary freely on relations of at most
\* two stops and no platform
InitExtract ==
  /\ \/ \E s \in 0..MaxStops, wl \in {RouteWaysJoined, RouteWaysGap}, pl \in PlatformNames :
        \E names \in [1..s -> StopNames], inside \in SUBSET (1..s) :
          /\ rel = Relation(DefaultTags, s, pl[1], pl[2], wl)
          /\ doc = Document(s, names, pl[1], pl[2], wl)
          /\ boundary = inside
     \/ \E s \in 0..2, tags \in AllTags, wl \in RouteWayLists :
        \E names \in [1..s -> StopNames], inside \in SUBSET (1..s) :
          /\ rel = Relation(tags, s, "-", "-", wl)
          /\ doc = Document(s, names, "-", "-", wl)
          /\ boundary = inside
  /\ all_ways = <<>>
  /\ glued = <<>>
  /\ extracted = <<>>
  /\ pc = "call"
  /\ SnapIdle
  /\ PathIdle

NextExtract == ExtractRoute

SpecExtract == InitExtract /\ [][NextExtract]_vars

(***************************************************************************)
(* convert_osm/src/transit.rs: snap_bus_stops.  The RawMap is               *)
(* [intersections], the set of the nodes that are intersections; a road is *)
(* [i1, i2]; pt_to_road is a function from points to roads.  A result is   *)
(* Ok(route), Err(reason) with the nodes the message names, or the abort   *)
(* of the call.                                                            *)
(***************************************************************************)
NoNode == 0
SnapOk(route) == [kind |-> "Ok", route |-> route, err |-> "", stop |-> NoNode]
SnapErr(e, n) == [kind |-> "Err", route |-> NoRoute, err |-> e, stop |-> n]
SnapPanic(m, n) == [kind |-> "Panic", route |-> NoRoute, err |-> m, stop |-> n]

\* all_pts.iter().position(|pt| n == *pt): the first index of n, 0 for None
position(pts, n) ==
  IF \E i \in 1..Len(pts) : pts[i] = n
  THEN CHOOSE i \in 1..Len(pts) : pts[i] = n /\ \A j \in 1..(i - 1) : pts[j] # n
  ELSE 0

\* the scan backwards from idx for the nearest intersection; NoNode for None
scan_backwards(pts, intersections, idx) ==
  LET hits == {i \in 1..idx : pts[i] \in intersections} IN
  IF hits = {} THEN NoNode ELSE pts[CHOOSE i \in hits : \A j \in hits : j <= i]

\* the scan forwards from idx for the nearest intersection; NoNode for None
scan_forwards(pts, intersections, idx) ==
  LET hits == {i \in idx..Len(pts) : pts[i] \in intersections} IN
  IF hits = {} THEN NoNode ELSE pts[CHOOSE i \in hits : \A j \in hits : i <= j]

\* Some((road, fwds))
Matched(road, fwds) == [i1 |-> road.i1, i2 |-> road.i2, fwds |-> fwds]

\* sensitivity of C13: no stop counts as being at an intersection
never_at_intersection(stop, r) == FALSE

\* raw.intersections.contains_key(&stop.vehicle_pos.0)
at_intersection(stop, r) == stop.node \in r.intersections

\* for stop in &mut route.stops, from stop k on
RECURSIVE snap_loop(_, _, _, _)
snap_loop(route, r, roads, k) ==
  IF k > Len(route.stops) THEN SnapOk(route)
  ELSE
    LET stop == route.stops[k] IN
    IF at_intersection(stop, r) THEN SnapErr("at an intersection", stop.node)
    ELSE
      LET idx_in_route == position(route.all_pts, stop.node) IN
      IF idx_in_route = 0 THEN SnapPanic("position unwrap", stop.node)
      ELSE
        LET i1 == scan_backwards(route.all_pts, r.intersections, idx_in_route)
            i2 == scan_forwards(route.all_pts, r.intersections, idx_in_route)
        IN
        IF stop.pt \notin DOMAIN roads THEN SnapPanic("no road for point", stop.node)
        ELSE IF i1 = NoNode THEN SnapPanic("i1 unwrap", stop.node)
        ELSE IF i2 = NoNode THEN SnapPanic("i2 unwrap", stop.node)
        ELSE
          LET road == roads[stop.pt] IN
          IF road.i1 = i1 /\ road.i2 = i2 THEN
            snap_loop([route EXCEPT !.stops[k].matched_road = Matched(road, TRUE)],
                      r, roads, k + 1)
          ELSE IF road.i1 = i2 /\ road.i2 = i1 THEN
            snap_loop([route EXCEPT !.stops[k].matched_road = Matched(road, FALSE)],
                      r, roads, k + 1)
          ELSE SnapErr("can't figure out", stop.node)

snap_bus_stops(route, r, roads) == snap_loop(route, r, roads, 1)

\* the call under check, on the route extract_route produced
SnapBusStops ==
  /\ pc = "done"
  /\ extracted.kind = "Some"
  /\ snapped' = snap_bus_stops(extracted.route, raw, pt_to_road)
  /\ pc' = "snapped"
  /\ UNCHANGED <<pathVars, doc, all_ways, glued, rel, boundary, extracted, raw, pt_to_road>>

(***************************************************************************)
(* The routes and maps of SpecSnap: a relation of stop nodes and of ways   *)
(* that join, every stop inside the boundary; extract_route makes the      *)
(* route of it, snap_bus_stops matches its stops.                          *)
(***************************************************************************)
\* stops of a route
MaxSnapStops == 2

SnapNodes == 1..5
\* the ways of the street 1 - 2 - 3 - 4, listed from either end, and of a loop
SnapWayLists ==
  {<<<<1, 2>>, <<3, 2>>, <<3, 4>>>>, <<<<3, 4>>, <<3, 2>>, <<1, 2>>>>, RouteWaysJoined}
SnapRoads == {[i1 |-> 1, i2 |-> 4], [i1 |-> 4, i2 |-> 1], [i1 |-> 1, i2 |-> 3]}
NoSnapRoad == [i1 |-> NoNode, i2 |-> NoNode]

\* the stops of a route are different nodes, on the street or off it (node 5)
SnapStopLists ==
  UNION {{q \in [1..k -> SnapNodes] : \A i \in 1..k, j \in 1..k : q[i] = q[j] => i = j} :
           k \in 2..MaxSnapStops}

InitSnap ==
  /\ \E stop_ids \in SnapStopLists, wl \in SnapWayLists, ints \in SUBSET (1..4) :
     \E roads \in [1..Len(stop_ids) -> SnapRoads \cup {NoSnapRoad}] :
       /\ rel = [tags |-> DefaultTags,
                 members |-> [i \in 1..Len(stop_ids) |-> Member("stop", "Node", stop_ids[i])]
                               \o [i \in 1..Len(wl) |-> Member("", "Way", i)]]
       /\ doc = [nodes |-> [n \in SnapNodes |-> [name |-> NoTag, pt |-> n]],
                 ways |-> [w \in 1..Len(wl) |-> Way(wl[w], w)]]
       /\ boundary = SnapNodes
       /\ raw = [intersections |-> ints]
       /\ pt_to_road =
            [p \in {stop_ids[i] : i \in {j \in 1..Len(stop_ids) : roads[j] # NoSnapRoad}} |->
               roads[CHOOSE i \in 1..Len(stop_ids) : stop_ids[i] = p]]
  /\ all_ways = <<>>
  /\ glued = <<>>
  /\ extracted = <<>>
  /\ snapped = <<>>
  /\ pc = "call"
  /\ PathIdle

NextSnap == ExtractRoute \/ SnapBusStops

SpecSnap == InitSnap /\ [][NextSnap]_vars

(***************************************************************************)
(* Properties of the route search (SpecPath).                              *)
(***************************************************************************)
\* the policy lets a search step from lane u to lane v
Permitted(u, v) ==
  /\ \E t \in map.turns : t.src = u /\ t.dst = v
  /\ \/ req.pf.kind = "UsingTransit"
     \/ req.pf.is_bike
     \/ map.lanes[v].lane_type # "Biking"

RECURSIVE ReachFrom(_)
ReachFrom(S) ==
  LET more == S \cup {v \in DOMAIN map.lanes : \E u \in S : Permitted(u, v)}
  IN IF more = S THEN S ELSE ReachFrom(more)

Reachable(from, to) == to \in ReachFrom({from})

\* more than any chain of lanes costs
Infinity == NumLanes * (BlockLength + MaxBend * BendUnit) + 1

Min(S) == CHOOSE x \in S : \A y \in S : x <= y

\* the least cost of a chain of at most hops permitted steps from start to v,
\* each step costing the length of the lane it leaves
RECURSIVE BestCost(_, _, _)
BestCost(from, v, hops) ==
  IF v = from THEN 0
  ELSE IF hops = 0 THEN Infinity
  ELSE Min({Infinity} \cup
           {BestCost(from, u, hops - 1) + map.lanes[u].length :
              u \in {x \in DOMAIN map.lanes : Permitted(x, v)}})

\* the lane chain the search rebuilt: the back-references from lane l to start
RECURSIVE ChainTo(_, _)
ChainTo(l, fuel) ==
  IF l = req.start \/ fuel = 0 \/ l \notin DOMAIN backrefs THEN <<l>>
  ELSE Append(ChainTo(backrefs[l], fuel - 1), l)

RECURSIVE ChainCost(_)
ChainCost(chain) ==
  IF Len(chain) <= 1 THEN 0
  ELSE map.lanes[chain[1]].length + ChainCost(Tail(chain))

Searched == pc = "done" /\ req.start # req.end
SameType == map.lanes[req.start].lane_type = map.lanes[req.end].lane_type
IsLaneStep(st) == st.kind \in {"Lane", "ContraflowLane"}

\* C1: a shortest-distance search with start # end that returns a path returns
\* one whose lane chain has the least cost among the chains the policy permits,
\* a chain costing the lengths of all its lanes but the last.
C1_LowestCost ==
  (Searched /\ req.pf.kind = "ShortestDistance" /\ result.kind = "Some")
    => ChainCost(ChainTo(req.end, NumLanes)) = BestCost(req.start, req.end, NumLanes)

\* C2: when the end lane cannot be reached from the start lane through the
\* turns the policy permits (lanes of one type, start # end), pathfind returns
\* None, with the frontier empty, and never a path.
C2_NoRouteIsNone ==
  (Searched /\ SameType /\ ~Reachable(req.start, req.end))
    => (result = ResNone /\ queue = {})

\* C2 happens: a search that expanded lanes, never met the end and returned None
C2_Witness ==
  /\ Searched /\ SameType /\ ~Reachable(req.start, req.end)
  /\ result = ResNone
  /\ DOMAIN backrefs # {}

\* C3: start == end on a sidewalk gives exactly one step, ContraflowLane(start)
\* when end_dist < start_dist and Lane(start) otherwise, and the frontier is
\* never used.
C3_SameSidewalk ==
  (req.start = req.end /\ map.lanes[req.start].lane_type = "Sidewalk")
    => /\ pc # "loop"
       /\ queue = {} /\ DOMAIN backrefs = {}
       /\ pc = "done" =>
            result.kind = "Some" /\ Len(result.steps) = 1
            /\ result.steps[1].lane = req.start
            /\ result.steps[1].kind =
                 (IF req.end_dist < req.start_dist THEN "ContraflowLane" ELSE "Lane")

\* C3 happens: a walk back along the one sidewalk
C3_Witness ==
  /\ pc = "done" /\ req.start = req.end
  /\ map.lanes[req.start].lane_type = "Sidewalk"
  /\ req.end_dist < req.start_dist
  /\ result = ResSome(<<StepContraflowLane(req.start)>>)

\* where a step is left and entered, as the spec words it
ExitPoint(st) ==
  IF st.kind = "Lane" THEN PtAt(st.lane, map.lanes[st.lane].dst_i)
  ELSE IF st.kind = "ContraflowLane" THEN PtAt(st.lane, map.lanes[st.lane].src_i)
  ELSE PtAt(st.turn.dst, st.turn.parent)
EntryPoint(st) ==
  IF st.kind = "Lane" THEN PtAt(st.lane, map.lanes[st.lane].src_i)
  ELSE IF st.kind = "ContraflowLane" THEN PtAt(st.lane, map.lanes[st.lane].dst_i)
  ELSE PtAt(st.turn.src, st.turn.parent)

\* C4: every path the search returns is contiguous: each step is left at the
\* point where the next one is entered.
C4_Contiguous ==
  (pc = "done" /\ result.kind = "Some")
    => \A i \in 1..(Len(result.steps) - 1) :
         ExitPoint(result.steps[i]) = EntryPoint(result.steps[i + 1])

\* C4 happens: a returned path over three lanes, one of them walked contraflow
C4_Witness ==
  /\ pc = "done" /\ result.kind = "Some"
  /\ Len(result.steps) = 5
  /\ \E i \in 1..5 : result.steps[i].kind = "ContraflowLane"
  /\ \E i \in 1..5 : result.steps[i].kind = "Turn"
  /\ \A i \in 1..4 : ExitPoint(result.steps[i]) = EntryPoint(result.steps[i + 1])

\* C5 as claimed: while steps remain, a path that was returned and then
\* shifted any number of times starts and ends with a lane traversal.
C5_Original ==
  (pc \in {"done", "shifted"} /\ result.kind = "Some" /\ result.steps # <<>>)
    => IsLaneStep(result.steps[1]) /\ IsLaneStep(Last(result.steps))

\* C5, amended: a path as the search returns it is non-empty and starts and
\* ends with a lane traversal; while steps remain after any number of shifts,
\* its last step is a lane traversal (its first step may be a turn).
C5_LastStepIsLane ==
  /\ (pc = "done" /\ result.kind = "Some")
       => result.steps # <<>> /\ IsLaneStep(result.steps[1])
  /\ (pc \in {"done", "shifted"} /\ result.kind = "Some" /\ result.steps # <<>>)
       => IsLaneStep(Last(result.steps))

\* C5 happens: a path shifted once, now starting with a turn
C5_Witness ==
  /\ pc = "shifted" /\ result.kind = "Some" /\ Len(result.steps) >= 2
  /\ result.steps[1].kind = "Turn"
  /\ IsLaneStep(Last(result.steps))

\* the lanes the steps of the returned path run over
StepLanes == {result.steps[i].lane : i \in {j \in 1..Len(result.steps) : IsLaneStep(result.steps[j])}}
NotForBikes == req.pf.kind = "ShortestDistance" /\ ~req.pf.is_bike

\* C15 as claimed: a shortest-distance search that is not for a bike trip
\* never returns a path with a step over a Biking lane, start == end included.
C15_Original ==
  (pc = "done" /\ NotForBikes /\ result.kind = "Some")
    => \A l \in StepLanes : map.lanes[l].lane_type # "Biking"

\* C15, amended: a shortest-distance search that is not for a bike trip and
\* has start # end never returns a path with a step over a Biking lane, and
\* returns no path at all between two Biking lanes.  With start == end on a
\* Biking lane it returns the one step Lane(start) when
\* start_dist <= end_dist, and aborts otherwise.
C15_NoBikeLaneEntered ==
  (pc = "done" /\ NotForBikes)
    => /\ (req.start # req.end /\ result.kind = "Some")
            => \A l \in StepLanes : map.lanes[l].lane_type # "Biking"
       /\ (req.start # req.end /\ map.lanes[req.start].lane_type = "Biking")
            => result.kind # "Some"
       /\ (req.start = req.end /\ map.lanes[req.start].lane_type = "Biking")
            => result = (IF req.start_dist > req.end_dist THEN ResPanic("assert Sidewalk")
                         ELSE ResSome(<<StepLane(req.start)>>))

\* C15 happens: a search that is not for a bike trip returned a path, on a
\* map where a turn leads from the start lane into a Biking lane
C15_Witness ==
  /\ pc = "done" /\ NotForBikes /\ req.start # req.end /\ result.kind = "Some"
  /\ \E t \in map.turns : t.src = req.start /\ map.lanes[t.dst].lane_type = "Biking"

\* C16: the search is deterministic: for a fixed map, policy, start and end
\* it returns the same result in whichever order the map enumerates the
\* turns of a lane.
C16_Deterministic ==
  (pc = "done" /\ req.start # req.end /\ SameType)
    => \A o \in TurnOrders : pathfind_in_order(o) = result

\* C16 happens: a transit search returned a path after two lanes entered the
\* queue with the same priority, in an order that depends on the map's
C16_Witness ==
  /\ pc = "done" /\ req.start # req.end /\ result.kind = "Some"
  /\ req.pf.kind = "UsingTransit"
  /\ \E o1 \in TurnOrders, o2 \in TurnOrders :
       LET v1 == expand_in_order(req.pf, req.start, o1)
           v2 == expand_in_order(req.pf, req.start, o2)
       IN Len(v1) >= 2 /\ v1[1][1] # v2[1][1] /\ v1[1][2] = v1[2][2] /\ v1[1][1] # v1[2][1]

\* C17: for every lane chain the search rebuilds, pick_turn finds a turn for
\* each pair of adjacent lanes: the "No turn from ... to ..." panic is
\* unreachable.
C17_TurnAlwaysFound == ~(pc = "done" /\ result = ResPanic("No turn"))

\* C18: the step list lanes_to_path hands to Path::new always passes
\* validation: the "path that warps" panic is unreachable.
C18_NeverWarps == ~(pc = "done" /\ result = ResPanic("warps"))

\* C19: a search with start == end, on a lane of any type and with any two
\* offsets, returns a path of exactly one step over that lane and does not
\* abort; the step is a contraflow step only when the lane is a sidewalk and
\* the end offset lies before the start offset.
C19_SameLaneOneStep ==
  (pc = "done" /\ req.start = req.end)
    => /\ result.kind = "Some" /\ Len(result.steps) = 1
       /\ IsLaneStep(result.steps[1]) /\ result.steps[1].lane = req.start
       /\ result.steps[1].kind = "ContraflowLane"
            <=> (map.lanes[req.start].lane_type = "Sidewalk" /\ req.end_dist < req.start_dist)

\* the accumulated cost of lane l: the lengths of the lanes before it on its
\* back-reference chain to start
AccumulatedCost(l) == ChainCost(ChainTo(l, NumLanes))

\* C20: under the transit policy the priority a lane enters the frontier with
\* is its accumulated cost (negated, the heap being a max-heap), and the
\* frontier pops an entry of least accumulated cost.  The entries of the
\* start lane, whose chain is empty, are left out.
C20_UniformCost ==
  (pc = "loop" /\ req.pf.kind = "UsingTransit")
    => LET entries == {e \in queue : e[2] # req.start} IN
       /\ \A e \in entries : e[1] = -AccumulatedCost(e[2])
       /\ (queue # {} /\ heap_max(queue)[2] # req.start)
            => \A e \in entries :
                 AccumulatedCost(heap_max(queue)[2]) <= AccumulatedCost(e[2])

\* the lanes that have entered the frontier so far: the start lane, pushed
\* before the loop, and the lanes pushed together with their back-reference
Discovered == {req.start} \cup DOMAIN backrefs

\* the lanes the step pushes into the frontier
Pushed == {e[2] : e \in queue' \ queue}

\* C21: during one search only lanes not yet discovered are inserted into the
\* frontier, so every lane, the start lane included, enters it at most once;
\* and a back-reference, once recorded, is never overwritten.
C21_InsertOnce ==
  [][pc = "loop" =>
       /\ Pushed \cap Discovered = {}
       /\ \A l \in DOMAIN backrefs : l \in DOMAIN backrefs' /\ backrefs'[l] = backrefs[l]]_vars

\* the search has returned
Returned == pc \in {"done", "shifted"}

NoRepeat(chain) == \A i, j \in 1..Len(chain) : chain[i] = chain[j] => i = j

\* the walk along the back-references ended in no outcome of its own: it did
\* not run on, miss a back-reference or fail its two assertions
WalkEnded ==
  /\ result.kind # "Diverge"
  /\ result \notin {ResPanic("no backref"), ResPanic("assert reversed_lanes")}

\* C22: every search terminates, also on maps with cycles of turns: the loop
\* ends by frontier exhaustion or by popping the end lane, and then the walk
\* along the back-references reaches start after at most as many steps as
\* there are lanes, over a chain that begins with start, ends with end and
\* repeats no lane.
C22_Terminates ==
  /\ <>Returned
  /\ [](pc = "loop" => Cardinality(queue) <= Cardinality(DOMAIN map.lanes))
  /\ []((pc = "done" /\ req.start # req.end /\ SameType) =>
          \/ result = ResNone /\ queue = {}
          \/ /\ result # ResNone
             /\ req.end \in DOMAIN backrefs
             /\ WalkEnded
             /\ LET chain == ChainTo(req.end, NumLanes) IN
                /\ chain[1] = req.start
                /\ Last(chain) = req.end
                /\ NoRepeat(chain)
                /\ Len(chain) <= Cardinality(DOMAIN map.lanes))

\* a search over a cycle of turns through start: start was discovered again
\* from a lane it leads to, and the walk from end still stopped at start
C22_Witness ==
  /\ pc = "done" /\ result.kind = "Some"
  /\ req.start \in DOMAIN backrefs
  /\ Len(ChainTo(req.end, NumLanes)) >= 3
  /\ \E l \in DOMAIN backrefs : backrefs[l] = req.start /\ backrefs[req.start] = l

(***************************************************************************)
(* Properties of glue_route (SpecGlue).                                    *)
(***************************************************************************)
NumWays == Len(all_ways)
WayNodes(i) == doc.ways[all_ways[i]].nodes

\* o1 followed by o2 without its first node, ..., by ok without its first node
RECURSIVE JoinAll(_)
JoinAll(os) ==
  IF Len(os) = 0 THEN <<>>
  ELSE IF Len(os) = 1 THEN os[1]
  ELSE JoinAll(WithoutLast(os)) \o Tail(Last(os))

RECURSIVE SumLen(_)
SumLen(os) == IF os = <<>> THEN 0 ELSE Len(os[1]) + SumLen(Tail(os))

\* way i as stored, or reversed where flip says so
Oriented(flip) == [i \in 1..NumWays |-> IF flip[i] THEN Reverse(WayNodes(i)) ELSE WayNodes(i)]

\* the end-to-end orientations of the ways
Joined(os) == \A i \in 1..(Len(os) - 1) : Last(os[i]) = os[i + 1][1]

\* C6: a chain glue_route returns for ways w1..wk, k >= 2, is o1, then o2
\* without its first node, ..., then ok without its first node, each oi being
\* wi as stored or reversed and ending where o(i+1) starts; it has the ways'
\* node counts less k - 1 nodes.
C6_StitchedChain ==
  (pc = "done" /\ glued.kind = "Ok")
    => /\ NumWays >= 2
       /\ \E flip \in [1..NumWays -> BOOLEAN] :
            /\ Joined(Oriented(flip))
            /\ glued.nodes = JoinAll(Oriented(flip))
       /\ Len(glued.nodes) = SumLen([i \in 1..NumWays |-> WayNodes(i)]) - (NumWays - 1)

\* C6 happens: three ways, the middle one stored against the route direction
C6_Witness ==
  /\ pc = "done" /\ glued.kind = "Ok"
  /\ NumWays = 3
  /\ WayNodes(1) = <<1, 2>> /\ WayNodes(2) = <<3, 2>> /\ WayNodes(3) = <<3, 1>>
  /\ glued.nodes = <<1, 2, 3, 1>>

\* C7 as claimed: with fewer than 2 ways glue_route fails with "route only
\* has one way".
C7_Original ==
  (pc = "done" /\ NumWays < 2) => (glued.kind = "Err" /\ glued.err = "one way")

\* C7, amended: with exactly one way glue_route fails with "route only has one
\* way", naming the way; with no way it fails with "empty? ways"; in neither
\* case does it return a chain.
C7_OneWayOrNone ==
  /\ (pc = "done" /\ NumWays = 1) => glued = GlueErr("one way", all_ways[1], 0, 0)
  /\ (pc = "done" /\ NumWays = 0) => glued = GlueErr("empty", 0, 0, 0)

\* C7 happens: a route of one way has been refused
C7_Witness ==
  pc = "done" /\ NumWays = 1 /\ glued.kind = "Err" /\ glued.err = "one way"

\* pair i of the ways shares no endpoint
Gap(i) ==
  LET a == WayNodes(i)
      b == WayNodes(i + 1)
  IN {a[1], Last(a)} \cap {b[1], Last(b)} = {}
GapPairs == {i \in 1..(NumWays - 1) : Gap(i)}

\* C8 as claimed: when some adjacent pair of 2 or more ways shares no
\* endpoint, glue_route returns a gap failure naming such a pair.
C8_Original ==
  (pc = "done" /\ GapPairs # {})
    => /\ glued.kind = "Err" /\ glued.err = "gap"
       /\ \E i \in GapPairs : glued.a = all_ways[i] /\ glued.b = all_ways[i + 1]

\* C8, amended: when some adjacent pair shares no endpoint, glue_route never
\* returns a chain; it fails, either with a gap failure naming the first such
\* pair, or with the "match up, but last piece was" failure of a pair before it.
C8_GapOrEarlierMismatch ==
  (pc = "done" /\ GapPairs # {})
    => LET first == CHOOSE i \in GapPairs : \A j \in GapPairs : i <= j IN
       /\ glued.kind = "Err"
       /\ \/ glued = GlueErr("gap", all_ways[first], all_ways[first + 1], 0)
          \/ /\ glued.err = "last piece"
             /\ \E i \in 1..(first - 1) : glued.a = all_ways[i] /\ glued.b = all_ways[i + 1]

\* C8 happens: the third pair is a gap, and the second pair fails first
C8_Witness ==
  /\ pc = "done" /\ NumWays = 4 /\ GapPairs = {3}
  /\ glued.kind = "Err" /\ glued.err = "last piece"
  /\ glued.a = all_ways[2] /\ glued.b = all_ways[3]

\* the ways can be oriented, each as stored or reversed, so that every way
\* ends where the next one starts
Orientable == \E flip \in [1..NumWays -> BOOLEAN] : Joined(Oriented(flip))

\* C23: glue_route resolves local reversal completely: for 2 or more ways
\* that can be oriented so that every way ends where the next one starts, it
\* returns a chain, also when two adjacent ways share both endpoints.
C23_ReversalResolved ==
  (pc = "done" /\ NumWays >= 2 /\ Orientable) => glued.kind = "Ok"

\* the orientations the code chooses for way i: as the second way of window
\* i - 1 and as the first way of window i
WithPredecessor(i) == orient_pair(WayNodes(i - 1), WayNodes(i))
WithSuccessor(i) == orient_pair(WayNodes(i), WayNodes(i + 1))
Differs(i) ==
  /\ WithPredecessor(i) # <<>> /\ WithSuccessor(i) # <<>>
  /\ WithPredecessor(i)[2] # WithSuccessor(i)[1]
InnerWays == 2..(NumWays - 1)
Closed(i) == WayNodes(i)[1] = Last(WayNodes(i))

\* C24 as claimed: glue_route never aborts, and a way whose orientation
\* chosen with its predecessor differs from the one chosen with its successor
\* is reported as a failure.
C24_Original ==
  pc = "done"
    => /\ glued.kind \in {"Ok", "Err"}
       /\ (\E i \in InnerWays : Differs(i)) => glued.kind = "Err"

\* C24, amended: glue_route never aborts, the final assertion included; a way
\* that does not end where it starts and whose two chosen orientations differ
\* is reported as a failure; a closed way is not: a returned chain runs over
\* it in the orientation chosen with its successor.
C24_NeverAborts ==
  pc = "done"
    => /\ glued.kind \in {"Ok", "Err"}
       /\ (\E i \in InnerWays : Differs(i) /\ ~Closed(i)) => glued.kind = "Err"
       /\ glued.kind = "Ok"
            => glued.nodes =
                 JoinAll([i \in 1..NumWays |->
                            IF i < NumWays THEN WithSuccessor(i)[1] ELSE WithPredecessor(i)[2]])

\* C24 happens: the second of three joined ways is oriented one way with the
\* first and the other way with the third, and the call reports it
C24_Witness ==
  /\ pc = "done" /\ NumWays = 3
  /\ GapPairs = {} /\ Differs(2) /\ ~Closed(2)
  /\ glued = GlueErr("last piece", all_ways[2], all_ways[3], WithPredecessor(2)[2][1])

(***************************************************************************)
(* Properties of extract_route (SpecExtract).                              *)
(***************************************************************************)
\* the stops of the relation, as node ids in member order
StopIds ==
  LET ms == SelectSeq(rel.members, LAMBDA m : m.role = "stop" /\ m.kind = "Node")
  IN [i \in 1..Len(ms) |-> ms[i].id]
InBoundary(i) == doc.nodes[StopIds[i]].pt \in boundary

\* stops a..b are the first maximal run of in-boundary stops
FirstRun(a, b) ==
  /\ a <= b
  /\ \A i \in 1..(a - 1) : ~InBoundary(i)
  /\ \A i \in a..b : InBoundary(i)
  /\ b = Len(StopIds) \/ ~InBoundary(b + 1)

\* the number of stops of the first run; 0 when no stop is inside
FirstRunLen ==
  IF \A i \in 1..Len(StopIds) : ~InBoundary(i) THEN 0
  ELSE LET a == CHOOSE i \in 1..Len(StopIds) :
                  InBoundary(i) /\ \A j \in 1..(i - 1) : ~InBoundary(j)
           b == CHOOSE j \in a..Len(StopIds) : FirstRun(a, j)
       IN b - a + 1

KeptIds == [i \in 1..Len(extracted.route.stops) |-> extracted.route.stops[i].node]

\* C9: the stops of a route extract_route produces are exactly the first
\* maximal run of consecutive in-boundary stops of the relation, in member
\* order; no stop after the run is kept, inside the boundary or not.
C9_FirstRunKept ==
  (pc = "done" /\ extracted.kind = "Some")
    => \E a \in 1..Len(StopIds), b \in 1..Len(StopIds) :
         /\ FirstRun(a, b)
         /\ KeptIds = SubSeq(StopIds, a, b)
         /\ \A i \in 1..Len(KeptIds) :
              extracted.route.stops[i].pt = doc.nodes[KeptIds[i]].pt

\* C9 happens: stops out, in, in, out, in; the second and third are kept
C9_Witness ==
  /\ pc = "done" /\ extracted.kind = "Some"
  /\ Len(StopIds) = 5
  /\ {i \in 1..5 : InBoundary(i)} = {2, 3, 5}
  /\ KeptIds = <<2, 3>>

\* C10: extract_route returns no route when the first run of in-boundary
\* stops has fewer than 2 stops, and every route it returns has at least 2.
C10_AtLeastTwoStops ==
  pc = "done"
    => /\ FirstRunLen < 2 => extracted.kind # "Some"
       /\ extracted.kind = "Some" => Len(extracted.route.stops) >= 2

\* C10 happens: a relation of several stops, one of them kept, gives no route
C10_Witness ==
  /\ pc = "done" /\ Len(StopIds) >= 2 /\ FirstRunLen = 1
  /\ extracted = ExtractNone("too few stops")

\* C11: extract_route produces a route only for a relation with a non-empty
\* name tag and a route tag of "bus" (is_bus) or "light_rail" (not is_bus); a
\* missing or empty name, or a missing or other route value, yields no route.
\* The short name of a route is the ref tag when present, else the full name.
C11_TagsDecide ==
  pc = "done"
    => /\ (rel.tags.name \in {NoTag, ""} \/ rel.tags.route \notin {"bus", "light_rail"})
            => extracted.kind # "Some"
       /\ extracted.kind = "Some"
            => /\ extracted.route.full_name = rel.tags.name
               /\ extracted.route.is_bus = (rel.tags.route = "bus")
               /\ extracted.route.short_name =
                    (IF rel.tags.ref # NoTag THEN rel.tags.ref ELSE rel.tags.name)

\* member m of the relation is a platform, a node or a way
IsPlatform(m) == rel.members[m].role = "platform" /\ rel.members[m].kind \in {"Node", "Way"}
Platforms == {m \in 1..Len(rel.members) : IsPlatform(m)}
PlatformTag(m) ==
  IF rel.members[m].kind = "Node" THEN doc.nodes[rel.members[m].id].name
  ELSE doc.ways[rel.members[m].id].name
PlatformPt(m) ==
  IF rel.members[m].kind = "Node" THEN doc.nodes[rel.members[m].id].pt
  ELSE doc.ways[rel.members[m].id].center

\* the name of platform m: its name tag, or "stop #n", n being one more than
\* the number of different names of the platforms before it
RECURSIVE PlatformName(_)
PlatformName(m) ==
  TagOr(PlatformTag(m),
        StopNumName(Cardinality({PlatformName(x) : x \in {y \in Platforms : y < m}}) + 1))

\* the name of the i-th stop: its name tag, or "stop #i"
StopName(i) == TagOr(doc.nodes[StopIds[i]].name, StopNumName(i))
StopOf(node) == CHOOSE i \in 1..Len(StopIds) : StopIds[i] = node

\* the pedestrian position the i-th stop is due: that of the last platform of
\* its name, when no stop before it has that name
PlatformsNamed(n) == {m \in Platforms : PlatformName(m) = n}
Greatest(S) == CHOOSE x \in S : \A y \in S : y <= x
DuePedPos(i) ==
  IF PlatformsNamed(StopName(i)) = {} \/ (\E j \in 1..(i - 1) : StopName(j) = StopName(i))
  THEN NoPt
  ELSE PlatformPt(Greatest(PlatformsNamed(StopName(i))))

\* every stop of the returned route has the pedestrian position it is due
MergedByName ==
  \A k \in 1..Len(extracted.route.stops) :
    extracted.route.stops[k].ped_pos = DuePedPos(StopOf(extracted.route.stops[k].node))

\* the relation without its member m
WithoutMember(m) ==
  [rel EXCEPT !.members =
     SubSeq(rel.members, 1, m - 1) \o SubSeq(rel.members, m + 1, Len(rel.members))]
MatchesNoStop(m) == \A i \in 1..Len(StopIds) : StopName(i) # PlatformName(m)
FollowedByUnnamed(m) == \E x \in Platforms : x > m /\ PlatformTag(x) = NoTag

\* C25 as claimed: platforms are merged into stops by name, before trimming:
\* a stop gets the position of the last platform of its name when it is the
\* first stop of that name, and none otherwise; and a platform whose name
\* matches no stop changes nothing in the route.
C25_Original ==
  (pc = "done" /\ extracted.kind = "Some")
    => /\ MergedByName
       /\ \A m \in Platforms :
            MatchesNoStop(m) => extract_route(WithoutMember(m), doc, boundary) = extracted

\* C25, amended: the merge is as claimed, a platform without a name tag being
\* named "stop #n" by the number of different platform names before it; a
\* platform whose name matches no stop changes nothing in the route when no
\* platform without a name tag follows it.
C25_MergedByName ==
  (pc = "done" /\ extracted.kind = "Some")
    => /\ MergedByName
       /\ \A m \in Platforms :
            (MatchesNoStop(m) /\ ~FollowedByUnnamed(m))
              => extract_route(WithoutMember(m), doc, boundary) = extracted

\* C25 happens: two platforms and the first two stops share a name; the first
\* stop consumed the name and was trimmed away, and the second stop, kept, has
\* no pedestrian position; a tagless stop took the position of no platform
C25_Witness ==
  /\ pc = "done" /\ extracted.kind = "Some"
  /\ Cardinality(Platforms) = 2 /\ \A m \in Platforms : PlatformName(m) = "A"
  /\ Len(StopIds) >= 3 /\ StopName(1) = "A" /\ StopName(2) = "A"
  /\ ~InBoundary(1)
  /\ DuePedPos(1) = PlatformPt(Greatest(Platforms))
  /\ extracted.route.stops[1].node = StopIds[2]
  /\ extracted.route.stops[1].ped_pos = NoPt

(***************************************************************************)
(* Properties of snap_bus_stops (SpecSnap).                                *)
(***************************************************************************)
\* the route given to snap_bus_stops, its stops and its node chain
SnapStops == extracted.route.stops
Chain == extracted.route.all_pts
IsIntersection(n) == n \in raw.intersections

\* stop k's node is in the chain; its position is the first place it has there
OnChain(k) == \E i \in 1..Len(Chain) : Chain[i] = SnapStops[k].node
StopPos(k) ==
  CHOOSE i \in 1..Len(Chain) :
    Chain[i] = SnapStops[k].node /\ \A j \in 1..(i - 1) : Chain[j] # SnapStops[k].node

\* the places of the intersections before and after stop k
PlacesBefore(k) == {i \in 1..(StopPos(k) - 1) : IsIntersection(Chain[i])}
PlacesAfter(k) == {i \in (StopPos(k) + 1)..Len(Chain) : IsIntersection(Chain[i])}
NearestBefore(k) == Chain[CHOOSE i \in PlacesBefore(k) : \A j \in PlacesBefore(k) : j <= i]
NearestAfter(k) == Chain[CHOOSE i \in PlacesAfter(k) : \A j \in PlacesAfter(k) : i <= j]

\* stop k lies between two intersections and its point has a road
Between(k) ==
  /\ ~IsIntersection(SnapStops[k].node)
  /\ OnChain(k) /\ PlacesBefore(k) # {} /\ PlacesAfter(k) # {}
  /\ SnapStops[k].pt \in DOMAIN pt_to_road
RoadOf(k) == pt_to_road[SnapStops[k].pt]
Forwards(k) == RoadOf(k).i1 = NearestBefore(k) /\ RoadOf(k).i2 = NearestAfter(k)
Backwards(k) == RoadOf(k).i1 = NearestAfter(k) /\ RoadOf(k).i2 = NearestBefore(k)

\* C12: when snap_bus_stops succeeds, every stop is matched to the road of
\* its point, forwards when the road runs from the nearest intersection
\* before the stop to the nearest one after it, backwards when it runs the
\* other way; when the road of some stop has any other endpoint pair, the
\* route is rejected with a failure.
C12_MatchedRoads ==
  pc = "snapped"
    => /\ snapped.kind = "Ok" =>
            \A k \in 1..Len(SnapStops) :
              /\ Between(k)
              /\ snapped.route.stops[k].matched_road.i1 = RoadOf(k).i1
              /\ snapped.route.stops[k].matched_road.i2 = RoadOf(k).i2
              /\ \/ Forwards(k) /\ snapped.route.stops[k].matched_road.fwds
                 \/ Backwards(k) /\ ~snapped.route.stops[k].matched_road.fwds
       /\ (\E k \in 1..Len(SnapStops) : Between(k) /\ ~Forwards(k) /\ ~Backwards(k))
            => snapped.kind = "Err"

\* the stops of the route that are at an intersection
StopsAtIntersection == {k \in 1..Len(SnapStops) : IsIntersection(SnapStops[k].node)}

\* C13 as claimed: a route with a stop at an intersection is rejected with
\* the "right at an intersection" failure naming such a stop.
C13_Original ==
  (pc = "snapped" /\ StopsAtIntersection # {})
    => /\ snapped.kind = "Err" /\ snapped.err = "at an intersection"
       /\ \E k \in StopsAtIntersection : snapped.stop = SnapStops[k].node

\* C13, amended: a route with a stop at an intersection is never returned.
\* The call ends at the first stop it cannot match: with the "right at an
\* intersection" failure naming the first stop at an intersection, unless a
\* stop before that one is rejected with the "Can't figure out" failure or
\* aborts the call.
C13_FirstFailureWins ==
  (pc = "snapped" /\ StopsAtIntersection # {})
    => LET first == CHOOSE k \in StopsAtIntersection : \A j \in StopsAtIntersection : k <= j
       IN /\ snapped.kind # "Ok"
          /\ \/ snapped = SnapErr("at an intersection", SnapStops[first].node)
             \/ /\ \/ snapped.kind = "Err" /\ snapped.err = "can't figure out"
                   \/ snapped.kind = "Panic"
                /\ \E k \in 1..(first - 1) : snapped.stop = SnapStops[k].node

\* C13 happens: the first stop is matched, the second is at an intersection
C13_Witness ==
  /\ pc = "snapped" /\ StopsAtIntersection = {2}
  /\ Between(1) /\ Forwards(1)
  /\ snapped = SnapErr("at an intersection", SnapStops[2].node)

\* C14: on a route extract_route produced, snap_bus_stops ends in one of two
\* ways, Ok with every stop matched or Err with a reason; it never aborts.
C14_OkOrErr ==
  pc = "snapped"
    => /\ snapped.kind \in {"Ok", "Err"}
       /\ snapped.kind = "Ok" =>
            \A k \in 1..Len(snapped.route.stops) :
              snapped.route.stops[k].matched_road.i1 # NoNode
       /\ snapped.kind = "Err" => snapped.err # ""

====
